---- MODULE Spec2Model ----
(***************************************************************************)
(* A model of the minerva interpreter core: the NaN-boxed Value word       *)
(* (vm/src/value.rs), the linked-object heap with its mark phase, the      *)
(* lexically scoped Environment (src/environment.rs) and the reader        *)
(* (src/parser.rs).                                                        *)
(*                                                                         *)
(* A 64-bit word is modelled as the set of the positions of its 1 bits,    *)
(* so that every bit operation of the source keeps its full width:         *)
(* a & b is intersection, a | b is union, !a is complement in 0..63.       *)
(***************************************************************************)
EXTENDS Integers, Sequences, FiniteSets, TLC

VARIABLES
    vin,        \* value machine: the constructor call under test
    val,        \* value machine: the Value word it returned
    vdone,      \* value machine: whether the constructor has run
    heap,       \* heap machine: address -> boxed object (or free memory)
    head,       \* heap machine: head word of the global object list
    venv,       \* heap machine: the environments closures capture
    phase,      \* heap machine: "mutator", or "marking" during a collection
    status,     \* heap machine: "ok", or "panic" once the process aborted
    allocLog,   \* heap machine: live objects, oldest allocation first
    rootReach,  \* heap machine: objects reachable from the roots marked so far
    lastOp,     \* heap machine: the last operation and what it returned
    nodes,      \* environment machine: the _Environment cells, by creation
    handles,    \* environment machine: the Environment handles held, each a cell
    elast,      \* environment machine: the last operation and what it returned
    input,      \* reader: the source text, a sequence of characters
    lexed,      \* reader: what Parser::parse returned for input
    built,      \* reader: what Token::build_ast returned for the tokens
    stream      \* builder: the tokens a caller hands to Token::build_ast

valueVars == <<vin, val, vdone>>
heapVars == <<heap, head, venv, phase, status, allocLog, rootReach, lastOp>>
envVars == <<nodes, handles, elast>>
readerVars == <<input, lexed, built, stream>>
vars ==
    <<vin, val, vdone, heap, head, venv, phase, status, allocLog, rootReach, lastOp,
      nodes, handles, elast, input, lexed, built, stream>>

----------------------------------------------------------------------------
(* 64-bit words *)

Bits == 0..63
Word == SUBSET Bits

And(a, b) == a \cap b
Or(a, b) == a \cup b
Not(a) == Bits \ a
Shl(a, n) == {k + n : k \in a} \cap Bits
Shr(a, n) == {k - n : k \in a} \cap Bits
\* i64 >> n : the sign bit fills the vacated positions
Sar(a, n) == Shr(a, n) \cup (IF 63 \in a THEN (64 - n)..63 ELSE {})
\* (1 << n) - 1
LowMask(n) == 0..(n - 1)

\* the value of the bits below position 31 (fits a model integer)
RECURSIVE BitSum(_)
BitSum(w) ==
    IF w = {} THEN 0
    ELSE LET k == CHOOSE x \in w : TRUE IN 2^k + BitSum(w \ {k})

\* i as u32 as u64 : two's complement on 32 bits, zero-extended
I32ToWord(i) ==
    LET low == IF i < 0 THEN (i + 2147483647) + 1 ELSE i
    IN {k \in 0..30 : (low \div (2^k)) % 2 = 1} \cup (IF i < 0 THEN {31} ELSE {})

\* w as u32 as i32 : truncate to 32 bits, reinterpret as signed
WordToI32(w) ==
    LET s == BitSum(w \cap (0..30))
    IN IF 31 \in w THEN (s - 2147483647) - 1 ELSE s

\* w as u32 as usize : truncate to 32 bits, zero-extended
WordToU32(w) == w \cap (0..31)

----------------------------------------------------------------------------
(* vm/src/value.rs : constants *)

NAN == 52..62                       \* 0x7FF0000000000000
TAG_MASK == {48, 49, 50}            \* 0b111 << 48
IMMEDIATE_MASK == {44, 45, 46, 47}  \* 0b1111 << 44
IMMEDIATE_TAG == {}                 \* 0b000 << 48
VOID_TAG == {44}                    \* 0b0001 << 44
NIL_TAG == {45}                     \* 0b0010 << 44
BOOL_TAG == {44, 45}                \* 0b0011 << 44
INT_TAG == {46}                     \* 0b0100 << 44
SYMBOL_TAG == {44, 46}              \* 0b0101 << 44
TRUE_BIT == {0}                     \* const TRUE: u64 = 1
FALSE_BIT == {}                     \* const FALSE: u64 = 0
LAMBDA_TAG == {48}                  \* 0b001 << 48
PAIR_TAG == {49}                    \* 0b010 << 48
VEC_TAG == {48, 49}                 \* 0b011 << 48
STRING_TAG == {50}                  \* 0b100 << 48
HASHMAP_TAG == {48, 50}             \* 0b101 << 48

----------------------------------------------------------------------------
(* vm/src/value.rs : predicates *)

is_imm(v, tag) ==
    /\ And(v, NAN) = NAN
    /\ And(v, TAG_MASK) = IMMEDIATE_TAG
    /\ And(v, IMMEDIATE_MASK) = tag

is_pointer(v, tag) ==
    /\ And(v, NAN) = NAN
    /\ And(v, TAG_MASK) = tag

is_void(v) == is_imm(v, VOID_TAG)
is_nil(v) == is_imm(v, NIL_TAG)
is_bool(v) == is_imm(v, BOOL_TAG)
is_integer(v) == is_imm(v, INT_TAG)
is_float(v) == And(v, NAN) # NAN
is_symbol(v) == is_imm(v, SYMBOL_TAG)
is_lambda(v) == is_pointer(v, LAMBDA_TAG)
is_pair(v) == is_pointer(v, PAIR_TAG)
is_vec(v) == is_pointer(v, VEC_TAG)
is_string(v) == is_pointer(v, STRING_TAG)
is_hashmap(v) == is_pointer(v, HASHMAP_TAG)

----------------------------------------------------------------------------
(* vm/src/value.rs : immediate constructors and accessors *)

Void == Or(NAN, VOID_TAG)
Nil == Or(NAN, NIL_TAG)
True == Or(Or(NAN, BOOL_TAG), TRUE_BIT)
False == Or(Or(NAN, BOOL_TAG), FALSE_BIT)
Bool(b) == IF b THEN True ELSE False
is_true(v) == v = True
is_false(v) == v = False

\* mutant: i as i64 as u64, the sign bits run over the tag
Integer_SignExtended(i) ==
    Or(Or(NAN, INT_TAG), Or(I32ToWord(i), IF i < 0 THEN 32..63 ELSE {}))
Integer(i) == Or(Or(NAN, INT_TAG), I32ToWord(i))
to_integer(v) == WordToI32(v)

\* f.to_bits() / f64::from_bits : a float is carried as its bit pattern
Float(f) == f
to_float(v) == v

Symbol(s) == Or(Or(NAN, SYMBOL_TAG), s)
to_symbol(v) == WordToU32(v)

\* NAN | tag | (p & ((1 << 48) - 1)) : the word a heap constructor returns
TaggedPointer(tag, p) == Or(Or(NAN, tag), And(p, LowMask(48)))

sign_extend(n, at) == Sar(Shl(n, 63 - at), 63 - at)
\* mutant: the low 48 bits, bit 47 not extended
to_pointer_LowBits(v) == And(v, LowMask(48))
to_pointer(v) == sign_extend(v, 47)

----------------------------------------------------------------------------
(* The value machine: one constructor call, drawn by Init, then applied *)

MaxInt == 8
IntInputs == {-2147483647 - 1, 2147483647} \cup (-MaxInt..MaxInt)

\* float64 bit patterns: sign x exponent x significand
FloatSigns == {{}, {63}}
FloatExps == {{}, {52}, 52..61, 53..62, 52..62}
FloatMants == SUBSET {0, 32, 44, 46, 48, 51}
FloatInputs == {Or(Or(s, e), m) : s \in FloatSigns, e \in FloatExps, m \in FloatMants}

IsNaN(f) == And(f, NAN) = NAN /\ And(f, LowMask(52)) # {}
IsQuietNaN(f) == IsNaN(f) /\ 51 \in f
IsInfinity(f) == And(f, NAN) = NAN /\ And(f, LowMask(52)) = {}
\* IEEE-754 ==
FloatEq(a, b) ==
    /\ ~IsNaN(a)
    /\ ~IsNaN(b)
    /\ (a = b \/ (a \ {63} = {} /\ b \ {63} = {}))

\* SymbolId s < 2^32 (debug_assert, value.rs:202)
SymbolInputs == SUBSET {0, 1, 16, 31}

\* canonical heap addresses, 8-byte aligned: bits 48..63 equal bit 47
AddrInputs == {{4}, {4, 12}, {3, 46}, {5, 20, 33}, 47..63, (47..63) \cup {4}, (47..63) \cup {3, 30}}

ImmediateCtors == {"Void", "Nil", "Bool", "Integer", "Float", "Symbol"}
PointerCtors == {"Lambda", "Pair", "Vec", "String", "HashMap"}
Kinds == ImmediateCtors \cup PointerCtors

ValueInputs ==
    {[ctor |-> c, i |-> 0, w |-> {}, b |-> FALSE] : c \in {"Void", "Nil"}}
    \cup {[ctor |-> "Bool", i |-> 0, w |-> {}, b |-> b] : b \in BOOLEAN}
    \cup {[ctor |-> "Integer", i |-> i, w |-> {}, b |-> FALSE] : i \in IntInputs}
    \cup {[ctor |-> "Float", i |-> 0, w |-> f, b |-> FALSE] : f \in FloatInputs}
    \cup {[ctor |-> "Symbol", i |-> 0, w |-> s, b |-> FALSE] : s \in SymbolInputs}
    \cup {[ctor |-> c, i |-> 0, w |-> a, b |-> FALSE] : c \in PointerCtors, a \in AddrInputs}

ValueInit ==
    /\ vin \in ValueInputs
    /\ val = {}
    /\ vdone = FALSE
    /\ heap = <<>>
    /\ head = {}
    /\ venv = <<>>
    /\ phase = "mutator"
    /\ status = "idle"
    /\ allocLog = <<>>
    /\ rootReach = {}
    /\ lastOp = "none"
    /\ nodes = <<>>
    /\ handles = <<>>
    /\ elast = "none"
    /\ input = <<>>
    /\ stream = <<>>
    /\ lexed = "none"
    /\ built = "none"

Return(c, v) ==
    /\ ~vdone
    /\ vin.ctor = c
    /\ val' = v
    /\ vdone' = TRUE
    /\ UNCHANGED vin
    /\ UNCHANGED <<heapVars, envVars, readerVars>>

MakeVoid == Return("Void", Void)
MakeNil == Return("Nil", Nil)
MakeBool == Return("Bool", Bool(vin.b))
MakeInteger == Return("Integer", Integer(vin.i))
MakeFloat == Return("Float", Float(vin.w))
MakeSymbol == Return("Symbol", Symbol(vin.w))
\* the word the heap constructors return for an object boxed at address vin.w
MakeLambda == Return("Lambda", TaggedPointer(LAMBDA_TAG, vin.w))
MakePair == Return("Pair", TaggedPointer(PAIR_TAG, vin.w))
MakeVec == Return("Vec", TaggedPointer(VEC_TAG, vin.w))
MakeString == Return("String", TaggedPointer(STRING_TAG, vin.w))
MakeHashMap == Return("HashMap", TaggedPointer(HASHMAP_TAG, vin.w))

----------------------------------------------------------------------------
(* vm/src/value.rs : heap objects *)

MaxObjects == 2
ObjIds == 1..MaxObjects

\* the binary digits of a small number, as a word
NumWord(n) == {j \in 0..7 : (n \div (2^j)) % 2 = 1}
\* Box::into_raw(Box::new(..)) as u64 : slot k of the allocator, 16 bytes apart
AddrOf(k) == Shl(NumWord(k), 4)
ObjAt(w) == CHOOSE k \in ObjIds : AddrOf(k) = w
IsObjAddr(w) == \E k \in ObjIds : AddrOf(k) = w

\* enum VType discriminants
VTypeNum(ty) ==
    CASE ty = "Void" -> 0
      [] ty = "Nil" -> 1
      [] ty = "Bool" -> 2
      [] ty = "Integer" -> 3
      [] ty = "Float" -> 4
      [] ty = "Symbol" -> 5
      [] ty = "Lambda" -> 6
      [] ty = "Pair" -> 7
      [] ty = "Vec" -> 8
      [] ty = "String" -> 9
      [] ty = "HashMap" -> 10
      [] ty = "BigInt" -> 11

\* impl From<u64> for VType
VTypeFrom(p) ==
    IF p = NumWord(VTypeNum("String")) THEN "String"
    ELSE IF p = NumWord(VTypeNum("Vec")) THEN "Vec"
    ELSE IF p = NumWord(VTypeNum("Lambda")) THEN "Lambda"
    ELSE IF p = NumWord(VTypeNum("Pair")) THEN "Pair"
    ELSE IF p = NumWord(VTypeNum("HashMap")) THEN "HashMap"
    ELSE IF p = NumWord(VTypeNum("BigInt")) THEN "BigInt"
    ELSE IF p = NumWord(VTypeNum("Void")) THEN "Void"
    ELSE "unreachable"

\* Value::to_type : no arm tests is_hashmap
to_type(v) ==
    IF is_void(v) THEN "Void"
    ELSE IF is_nil(v) THEN "Nil"
    ELSE IF is_bool(v) THEN "Bool"
    ELSE IF is_integer(v) THEN "Integer"
    ELSE IF is_float(v) THEN "Float"
    ELSE IF is_symbol(v) THEN "Symbol"
    ELSE IF is_lambda(v) THEN "Lambda"
    ELSE IF is_pair(v) THEN "Pair"
    ELSE IF is_vec(v) THEN "Vec"
    ELSE IF is_string(v) THEN "String"
    ELSE "unreachable"

\* memory not holding an object
FreeObj ==
    [kind |-> "Free", gc |-> {}, car |-> {}, cdr |-> {}, vec |-> <<>>,
     str |-> "", map |-> {}, env |-> 0, consts |-> <<>>]

\* heap_repr::Lambda::new
\* a closure's code is opaque to the value layer and is not carried
LambdaNew(gc, env, consts) ==
    [FreeObj EXCEPT !.kind = "Lambda", !.gc = gc, !.env = env, !.consts = consts]

\* mutant: the header does not record the previous head
PairNew_NoLink(gc, car, cdr) ==
    [FreeObj EXCEPT !.kind = "Pair", !.gc = {}, !.car = car, !.cdr = cdr]
\* heap_repr::Pair::new
PairNew(gc, car, cdr) ==
    [FreeObj EXCEPT !.kind = "Pair", !.gc = gc, !.car = car, !.cdr = cdr]

\* heap_repr::SString::new
SStringNew(gc, s) == [FreeObj EXCEPT !.kind = "String", !.gc = gc, !.str = s]

\* heap_repr::SVec::new
SVecNew(gc, v) == [FreeObj EXCEPT !.kind = "Vec", !.gc = gc, !.vec = v]

\* heap_repr::SHashMap::new ; the map is a set of <<key, value>> entries
SHashMapNew(gc, m) == [FreeObj EXCEPT !.kind = "HashMap", !.gc = gc, !.map = m]

KindTag(kind) ==
    CASE kind = "Lambda" -> LAMBDA_TAG
      [] kind = "Pair" -> PAIR_TAG
      [] kind = "Vec" -> VEC_TAG
      [] kind = "String" -> STRING_TAG
      [] kind = "HashMap" -> HASHMAP_TAG

Live(h) == {k \in ObjIds : h[k].kind # "Free"}
\* the Value the constructor returned for the object boxed in slot k
ValueOf(h, k) == TaggedPointer(KindTag(h[k].kind), AddrOf(k))
\* to_pair / to_vec / ... : Box::from_raw(self.to_pointer())
Deref(v) == ObjAt(to_pointer(v))

\* lib.rs get_head / set_head : the head word carries the object's address in
\* its low 56 bits and its VType in the top 8, as set_gc decodes it
get_head == head
HeadWord(p, ty) == Or(And(p, LowMask(56)), Shl(NumWord(VTypeNum(ty)), 56))

\* set_gc's decoding of a head or header word
LinkType(p) == VTypeFrom(Shr(p, 56))
LinkPtr(p) == And(sign_extend(p, 55), Not({0, 1, 2}))

\* Value::set_gc : aborts on a type it has no arm for
set_gc(h, p, gc) ==
    LET ty == LinkType(p)
        ptr == LinkPtr(p)
    IN IF ty \in {"Lambda", "Pair", "String", "Vec", "HashMap"} /\ IsObjAddr(ptr)
       THEN [ok |-> TRUE, h |-> [h EXCEPT ![ObjAt(ptr)].gc = gc]]
       ELSE [ok |-> FALSE, h |-> h]

----------------------------------------------------------------------------
(* the environments closures capture (vm crate Environment): a set of       *)
(* <<name, Value>> bindings and a parent, 0 for none                        *)

VmEnvIds == {1, 2}
VmNames == {"f"}
BoundValues(e) == {b[2] : b \in venv[e].bindings}

----------------------------------------------------------------------------
(* vm/src/value.rs : mark *)

MarkBit == {0}
Marked(o) == And(o.gc, MarkBit) = MarkBit
SeqOfMap(m) ==
    LET RECURSIVE flat(_)
        flat(s) == IF s = {} THEN <<>>
                   ELSE LET e == CHOOSE x \in s : TRUE
                        IN <<e[1], e[2]>> \o flat(s \ {e})
    IN flat(m)

\* whether a pointer Value names a boxed object of the kind its tag says
Dereferenceable(h, v, kind) ==
    /\ IsObjAddr(to_pointer(v))
    /\ h[Deref(v)].kind = kind

RECURSIVE MarkList(_, _)
RECURSIVE EnvMark(_, _)
RECURSIVE MarkEach(_, _)

\* Value::mark, the loop over the work list; the result is the heap,
\* "ok", "panic" (unreachable!() in to_type) or "ub" (a wild pointer), and
\* the objects whose children were pushed, in the order of the pushes
MarkList(list, h) ==
    IF list = <<>> THEN [st |-> "ok", h |-> h, ex |-> <<>>]
    ELSE
      LET cur == list[Len(list)]
          rest == SubSeq(list, 1, Len(list) - 1)
          ty == to_type(cur)
      IN
      IF ty = "unreachable" THEN [st |-> "panic", h |-> h, ex |-> <<>>]
      ELSE IF ty \notin {"Lambda", "Pair", "Vec", "String", "HashMap"}
      THEN MarkList(rest, h)
      ELSE IF ~Dereferenceable(h, cur, ty) THEN [st |-> "ub", h |-> h, ex |-> <<>>]
      ELSE
        LET k == Deref(cur)
            p == h[k]
            set == [h EXCEPT ![k].gc = Or(p.gc, MarkBit)]
            Pushed(r) == [r EXCEPT !.ex = <<k>> \o @]
        IN
        CASE ty = "Lambda" ->
               IF ~Marked(p)
               THEN LET r == EnvMark(p.env, set)
                    IN IF r.st # "ok" THEN Pushed(r)
                       ELSE LET r2 == MarkList(rest \o p.consts, r.h)
                            IN [r2 EXCEPT !.ex = <<k>> \o r.ex \o @]
               ELSE MarkList(rest, h)
          [] ty = "Pair" ->
               IF ~Marked(p)
               THEN Pushed(MarkList(rest \o <<p.car, p.cdr>>, set))
               ELSE MarkList(rest, h)
          [] ty = "Vec" ->
               IF ~Marked(p)
               THEN Pushed(MarkList(rest \o p.vec, set))
               ELSE MarkList(rest, h)
          [] ty = "String" -> MarkList(rest, set)
          [] ty = "HashMap" -> Pushed(MarkList(rest \o SeqOfMap(p.map), set))

\* Environment::mark : marks each bound value, then the parent
EnvMark(e, h) ==
    IF e = 0 THEN [st |-> "ok", h |-> h, ex |-> <<>>]
    ELSE LET r == MarkEach(BoundValues(e), h)
         IN IF r.st # "ok" THEN r
            ELSE LET r2 == EnvMark(venv[e].parent, r.h)
                 IN [r2 EXCEPT !.ex = r.ex \o @]

MarkEach(vs, h) ==
    IF vs = {} THEN [st |-> "ok", h |-> h, ex |-> <<>>]
    ELSE LET v == CHOOSE x \in vs : TRUE
             r == MarkList(<<v>>, h)
         IN IF r.st # "ok" THEN r
            ELSE LET r2 == MarkEach(vs \ {v}, r.h)
                 IN [r2 EXCEPT !.ex = r.ex \o @]

\* mutant: a marked object's header is set to 1, its link and type lost
mark_HeaderOverwritten(root, h) ==
    LET r == MarkList(<<root>>, h)
    IN [r EXCEPT !.h = [k \in ObjIds |->
                          IF Marked(r.h[k]) THEN [r.h[k] EXCEPT !.gc = MarkBit]
                          ELSE r.h[k]]]
\* Value::mark
mark(root, h) == MarkList(<<root>>, h)

----------------------------------------------------------------------------
(* sweep (lib.rs): walks the global object list; frees the unmarked and     *)
(* clears the mark of the survivors                                         *)

RECURSIVE SweepFrom(_, _, _, _, _)
SweepFrom(cur, prev, h, hd, freed) ==
    IF LinkPtr(cur) = {} THEN [st |-> "ok", h |-> h, head |-> hd, freed |-> freed]
    ELSE
      LET k == ObjAt(LinkPtr(cur))
          next == And(h[k].gc, Not(MarkBit))
      IN
      IF Marked(h[k])
      THEN SweepFrom(next, cur, [h EXCEPT ![k].gc = next], hd, freed)
      ELSE
        LET gone == [h EXCEPT ![k] = FreeObj]
        IN IF prev = {}
           THEN SweepFrom(next, prev, gone, next, Append(freed, k))
           ELSE LET r == set_gc(gone, prev, next)
                IN IF r.ok
                   THEN SweepFrom(next, prev, r.h, hd, Append(freed, k))
                   ELSE [st |-> "panic", h |-> gone, head |-> hd, freed |-> freed]

sweep(h, hd) == SweepFrom(hd, {}, h, hd, <<>>)

\* the objects met walking the list from a link word, at most n of them
RECURSIVE WalkFrom(_, _, _)
WalkFrom(h, cur, n) ==
    IF n = 0 \/ LinkPtr(cur) = {} \/ ~IsObjAddr(LinkPtr(cur)) THEN <<>>
    ELSE LET k == ObjAt(LinkPtr(cur))
         IN <<k>> \o WalkFrom(h, h[k].gc, n - 1)

Walk(h, hd) == WalkFrom(h, hd, MaxObjects + 1)

----------------------------------------------------------------------------
(* reachability, as the object graph defines it *)

IsHeapValue(v) ==
    is_lambda(v) \/ is_pair(v) \/ is_vec(v) \/ is_string(v) \/ is_hashmap(v)

RECURSIVE EnvValues(_)
EnvValues(e) == IF e = 0 THEN {} ELSE BoundValues(e) \cup EnvValues(venv[e].parent)

Children(h, k) ==
    LET o == h[k]
    IN CASE o.kind = "Pair" -> {o.car, o.cdr}
         [] o.kind = "Vec" -> {o.vec[i] : i \in 1..Len(o.vec)}
         [] o.kind = "HashMap" -> {e[1] : e \in o.map} \cup {e[2] : e \in o.map}
         [] o.kind = "Lambda" -> {o.consts[i] : i \in 1..Len(o.consts)} \cup EnvValues(o.env)
         [] OTHER -> {}

Targets(vs) == {Deref(v) : v \in {x \in vs : IsHeapValue(x) /\ IsObjAddr(to_pointer(x))}}

RECURSIVE ReachFrom(_, _)
ReachFrom(h, ks) ==
    LET more == ks \cup UNION {Targets(Children(h, k)) : k \in ks}
    IN IF more = ks THEN ks ELSE ReachFrom(h, more)

Reach(h, rs) == ReachFrom(h, Targets(rs))

----------------------------------------------------------------------------
(* The heap machine: the mutator allocates and mutates; a collection marks  *)
(* roots and sweeps                                                         *)

MaxVecLen == 1
MaxPrintVec == 2
PosInf == 52..62
\* the Values the mutator stores: an immediate and the objects it made
ImmPool == {Nil}
Pool(h) == ImmPool \cup {ValueOf(h, k) : k \in Live(h)}
\* the Values the collector is handed as roots
RootPool(h) == Pool(h) \cup {Integer(1), Float(PosInf)}
\* the closures the mutator binds in an environment
LambdaValues(h) == {ValueOf(h, k) : k \in {x \in Live(h) : h[x].kind = "Lambda"}}
SeqsUpTo(S, n) == UNION {[1..m -> S] : m \in 0..n}
\* maps of at most one entry
MapsOver(S) == {{}} \cup {{<<k, v>>} : k \in S, v \in S}

NoOp == [op |-> "none", p |-> {}, v |-> {}, reach |-> {}, pre |-> {}, freed |-> <<>>]

HeapInit ==
    /\ heap = [k \in ObjIds |-> FreeObj]
    /\ head = {}
    /\ venv = [e \in VmEnvIds |-> [bindings |-> {}, parent |-> e - 1]]
    /\ phase = "mutator"
    /\ status = "ok"
    /\ allocLog = <<>>
    /\ rootReach = {}
    /\ lastOp = NoOp
    /\ vin = [ctor |-> "Void", i |-> 0, w |-> {}, b |-> FALSE]
    /\ val = {}
    /\ vdone = TRUE
    /\ nodes = <<>>
    /\ handles = <<>>
    /\ elast = "none"
    /\ input = <<>>
    /\ stream = <<>>
    /\ lexed = "none"
    /\ built = "none"

Mutating == status = "ok" /\ phase = "mutator"

\* the allocator hands out the lowest free slot
FirstFree(h) == CHOOSE k \in ObjIds \ Live(h) : \A j \in ObjIds \ Live(h) : k <= j

\* the common tail of the heap constructors: box the object built on the
\* current head, set_head(p, ty), return the tagged pointer
Allocate(ty, obj) ==
    /\ Mutating
    /\ Live(heap) # ObjIds
    /\ LET k == FirstFree(heap) IN
         /\ heap' = [heap EXCEPT ![k] = obj]
         /\ head' = HeadWord(AddrOf(k), ty)
         /\ allocLog' = Append(allocLog, k)
         /\ lastOp' = [NoOp EXCEPT !.op = "alloc"]
    /\ UNCHANGED <<venv, phase, status, rootReach>>
    /\ UNCHANGED <<valueVars, envVars, readerVars>>

Lambda(env, consts) == Allocate("Lambda", LambdaNew(get_head, env, consts))
Pair(car, cdr) == Allocate("Pair", PairNew(get_head, car, cdr))
Vec(v) == Allocate("Vec", SVecNew(get_head, v))
String(s) == Allocate("String", SStringNew(get_head, s))
HashMap(m) == Allocate("HashMap", SHashMapNew(get_head, m))

car(h, p) == h[Deref(p)].car
cdr(h, p) == h[Deref(p)].cdr

\* mutant: the store lands in both fields
StoreCar_Both(o, v) == [o EXCEPT !.car = v, !.cdr = v]
\* p.car = v
StoreCar(o, v) == [o EXCEPT !.car = v]
\* p.cdr = v
StoreCdr(o, v) == [o EXCEPT !.cdr = v]

PairValues(h) == {ValueOf(h, k) : k \in {x \in Live(h) : h[x].kind = "Pair"}}

set_car(p, v) ==
    /\ Mutating
    /\ heap' = [heap EXCEPT ![Deref(p)] = StoreCar(@, v)]
    /\ lastOp' = [NoOp EXCEPT !.op = "set_car", !.p = p, !.v = v]
    /\ UNCHANGED <<head, venv, phase, status, allocLog, rootReach>>
    /\ UNCHANGED <<valueVars, envVars, readerVars>>

set_cdr(p, v) ==
    /\ Mutating
    /\ heap' = [heap EXCEPT ![Deref(p)] = StoreCdr(@, v)]
    /\ lastOp' = [NoOp EXCEPT !.op = "set_cdr", !.p = p, !.v = v]
    /\ UNCHANGED <<head, venv, phase, status, allocLog, rootReach>>
    /\ UNCHANGED <<valueVars, envVars, readerVars>>

\* Environment::define on a captured environment
EnvDefine(e, n, v) ==
    /\ Mutating
    /\ venv' = [venv EXCEPT ![e].bindings = {b \in @ : b[1] # n} \cup {<<n, v>>}]
    /\ lastOp' = [NoOp EXCEPT !.op = "define"]
    /\ UNCHANGED <<heap, head, phase, status, allocLog, rootReach>>
    /\ UNCHANGED <<valueVars, envVars, readerVars>>

\* mark(root), the first of a collection stopping the mutator
Mark(root) ==
    /\ status = "ok"
    /\ LET r == mark(root, heap)
       IN /\ heap' = r.h
          /\ status' = IF r.st = "ok" THEN "ok" ELSE "panic"
          \* an aborted mark leaves its root behind for the post-mortem
          /\ lastOp' = [NoOp EXCEPT !.op = "mark", !.p = IF r.st = "ok" THEN {} ELSE root]
    /\ phase' = "marking"
    /\ rootReach' = rootReach \cup Reach(heap, {root})
    /\ UNCHANGED <<head, venv, allocLog>>
    /\ UNCHANGED <<valueVars, envVars, readerVars>>

\* sweep(), ending the collection
Sweep ==
    /\ status = "ok"
    /\ LET r == sweep(heap, head)
       IN /\ heap' = r.h
          /\ head' = r.head
          /\ status' = IF r.st = "ok" THEN "ok" ELSE "panic"
          /\ allocLog' = SelectSeq(allocLog, LAMBDA k : r.h[k].kind # "Free")
          /\ lastOp' = [NoOp EXCEPT !.op = "sweep", !.reach = rootReach,
                                    !.pre = Live(heap), !.freed = r.freed]
          \* the mutator keeps no Value of an object that was freed
          /\ venv' = [e \in VmEnvIds |->
                        [venv[e] EXCEPT !.bindings =
                            {b \in @ : r.h[Deref(b[2])].kind # "Free"}]]
    /\ phase' = "mutator"
    /\ rootReach' = {}
    /\ UNCHANGED <<valueVars, envVars, readerVars>>

HeapNext ==
    \/ \E e \in VmEnvIds, c \in SeqsUpTo(Pool(heap), MaxVecLen) : Lambda(e, c)
    \/ \E a \in Pool(heap), d \in Pool(heap) : Pair(a, d)
    \/ \E v \in SeqsUpTo(Pool(heap), MaxVecLen) : Vec(v)
    \/ \E s \in {"s"} : String(s)
    \/ \E m \in MapsOver(Pool(heap)) : HashMap(m)
    \/ \E p \in PairValues(heap), v \in Pool(heap) : set_car(p, v)
    \/ \E p \in PairValues(heap), v \in Pool(heap) : set_cdr(p, v)
    \/ \E e \in VmEnvIds, n \in VmNames, v \in LambdaValues(heap) : EnvDefine(e, n, v)
    \/ \E r \in RootPool(heap) : Mark(r)
    \/ Sweep

SpecHeap == HeapInit /\ [][HeapNext]_vars

----------------------------------------------------------------------------
(* vm/src/value.rs : impl fmt::Display for Value.  The text written is a   *)
(* string.                                                                  *)

\* {} of an i32
IntText(i) == ToString(i)

\* {} of an f64, for the values the printer is handed
FloatText(f) ==
    CASE f = {} -> "0"
      [] f = {63} -> "-0"
      [] f = 52..61 -> "1"

\* get_value(s).unwrap() : the interner's name of a symbol
SymbolName(s) == "sym" \o ToString(WordToU32(s))

RECURSIVE fmt(_, _)
RECURSIVE fmt_DotAlways(_, _)
RECURSIVE FmtCdr(_, _)
RECURSIVE FmtVec(_, _, _)

\* the while loop over the cdr chain and the closing of the list
FmtCdr(h, c) ==
    IF is_pair(c) THEN " " \o fmt(h, car(h, c)) \o FmtCdr(h, cdr(h, c))
    ELSE IF is_nil(c) THEN ")"
    ELSE " . " \o fmt(h, c) \o ")"

\* the elements of a vector from the i-th on
FmtVec(h, vec, i) ==
    IF i > Len(vec) THEN ""
    ELSE IF i + 1 # Len(vec) + 1 THEN fmt(h, vec[i]) \o ", " \o FmtVec(h, vec, i + 1)
    ELSE fmt(h, vec[i])

\* mutant: every cdr is written after a dot
fmt_DotAlways(h, v) ==
    IF is_pair(v)
    THEN "(" \o fmt_DotAlways(h, car(h, v)) \o " . " \o fmt_DotAlways(h, cdr(h, v)) \o ")"
    ELSE IF is_nil(v) THEN "()"
    ELSE IF is_true(v) THEN "#t"
    ELSE IF is_false(v) THEN "#f"
    ELSE IF is_lambda(v) THEN "#<procedure>"
    ELSE IF is_integer(v) THEN IntText(to_integer(v))
    ELSE IF is_string(v) THEN "\"" \o h[Deref(v)].str \o "\""
    ELSE ""
fmt(h, v) ==
    IF is_float(v) THEN FloatText(to_float(v))
    ELSE IF is_integer(v) THEN IntText(to_integer(v))
    ELSE IF is_symbol(v) THEN SymbolName(to_symbol(v))
    ELSE IF is_true(v) THEN "#t"
    ELSE IF is_false(v) THEN "#f"
    ELSE IF is_nil(v) THEN "()"
    ELSE IF is_void(v) THEN ""
    ELSE IF is_lambda(v) THEN "#<procedure>"
    ELSE IF is_pair(v) THEN "(" \o fmt(h, car(h, v)) \o FmtCdr(h, cdr(h, v))
    ELSE IF is_string(v) THEN "\"" \o h[Deref(v)].str \o "\""
    ELSE IF is_vec(v) THEN "#(" \o FmtVec(h, h[Deref(v)].vec, 1) \o ")"
    ELSE "debug: "

----------------------------------------------------------------------------
(* The printing machine: the mutator builds pair structure and prints      *)
(* Values                                                                   *)

PrintInit ==
    /\ heap = [k \in ObjIds |-> FreeObj]
    /\ head = {}
    /\ venv = [e \in VmEnvIds |-> [bindings |-> {}, parent |-> e - 1]]
    /\ phase = "mutator"
    /\ status = "ok"
    /\ allocLog = <<>>
    /\ rootReach = {}
    /\ lastOp = NoOp
    /\ vin = [ctor |-> "Void", i |-> 0, w |-> {}, b |-> FALSE]
    /\ val = {}
    /\ vdone = TRUE
    /\ nodes = <<>>
    /\ handles = <<>>
    /\ elast = "none"
    /\ input = <<>>
    /\ stream = <<>>
    /\ lexed = "none"
    /\ built = "none"

\* the immediates the mutator stores in pairs, besides Nil
PrintImms == {True, False, Void, Integer(1)}
\* the Values the printer is handed
PrintRoots(h) ==
    Pool(h) \cup PrintImms \cup {Integer(-1), Float({}), Float(52..61), Symbol({0})}

\* whether no object reachable from v is reachable from one of its own slots
Acyclic(h, v) ==
    \A k \in Reach(h, {v}) : k \notin ReachFrom(h, Targets(Children(h, k)))

\* write!(f, "{}", v); on a cyclic structure fmt does not return
Show(v) ==
    /\ Mutating
    /\ Acyclic(heap, v)
    /\ lastOp' = [op |-> "display", p |-> v, out |-> fmt(heap, v)]
    /\ UNCHANGED <<heap, head, venv, phase, status, allocLog, rootReach>>
    /\ UNCHANGED <<valueVars, envVars, readerVars>>

PrintNext ==
    \/ \E a \in Pool(heap) \cup PrintImms, d \in Pool(heap) \cup PrintImms : Pair(a, d)
    \/ \E e \in VmEnvIds : Lambda(e, <<>>)
    \/ \E v \in SeqsUpTo(Pool(heap) \cup {True}, MaxPrintVec) : Vec(v)
    \/ \E s \in {"s"} : String(s)
    \/ \E p \in PairValues(heap), v \in Pool(heap) : set_cdr(p, v)
    \/ \E v \in PrintRoots(heap) : Show(v)

SpecPrint == PrintInit /\ [][PrintNext]_vars

----------------------------------------------------------------------------
(* src/environment.rs : the Environment of the tree-walking interpreter.    *)
(* An Environment is a handle (Rc) on a cell (_Environment); a cell's       *)
(* bindings map each name to an Object, 0 standing for no entry, and its    *)
(* parent is the cell the parent handle shares, 0 standing for None.        *)

MaxEnvs == 3
MaxHandles == 4
MaxObject == 2
Names == {"x", "y"}
Objects == 1..MaxObject
None == 0
NoBindings == [n \in Names |-> None]
BindingMaps == [Names -> Objects \cup {None}]

\* _Environment::new ; made records how the cell came to be
EnvNew == [bindings |-> NoBindings, parent |-> None, made |-> "new", of |-> None]

\* mutant: the parent chain is consulted before the scope's own bindings
RECURSIVE lookup_ParentFirst(_, _, _)
lookup_ParentFirst(ns, n, name) ==
    LET up == IF ns[n].parent # None
              THEN lookup_ParentFirst(ns, ns[n].parent, name) ELSE None
    IN IF up # None THEN up ELSE ns[n].bindings[name]
\* _Environment::lookup_variable_value
RECURSIVE lookup_variable_value(_, _, _)
lookup_variable_value(ns, n, name) ==
    IF ns[n].bindings[name] # None THEN ns[n].bindings[name]
    ELSE IF ns[n].parent # None THEN lookup_variable_value(ns, ns[n].parent, name)
    ELSE None

\* mutant: the scope's bindings are replaced by the one new binding
define_variable_Replace(cell, name, value) ==
    [cell EXCEPT !.bindings = [n \in Names |-> IF n = name THEN value ELSE None]]
\* _Environment::define_variable : bindings.insert(name, value)
define_variable(cell, name, value) == [cell EXCEPT !.bindings[name] = value]

\* mutant: the child takes a snapshot of what the parent binds
extend_Snapshot(ns, p) ==
    [bindings |-> [n \in Names |-> lookup_variable_value(ns, p, n)],
     parent |-> None, made |-> "extend", of |-> p]
\* Environment::extend : a fresh cell whose parent is self.clone()
extend(ns, p) == [EnvNew EXCEPT !.parent = p, !.made = "extend", !.of = p]

\* mutant: the local scope is a child of the cell, not a copy of it
procedure_local_Child(ns, o) ==
    [bindings |-> NoBindings, parent |-> o, made |-> "local", of |-> o]
\* Environment::procedure_local : the bindings cloned, the parent handle cloned
procedure_local(ns, o) ==
    [bindings |-> ns[o].bindings, parent |-> ns[o].parent, made |-> "local", of |-> o]

\* Environment::from_hashmap
from_hashmap(map) == [EnvNew EXCEPT !.bindings = map]

\* elast holds the last define, or the last lookup and what it returned
\* impl PartialEq for _Environment
cell_eq(c1, c2) == FALSE

\* mutant: two handles are equal when they share their cell (Rc::ptr_eq)
env_eq_SameCell(ns, a, b) == a = b
\* #[derive(PartialEq)] for Environment: Rc and RefCell compare what they hold
env_eq(ns, a, b) == cell_eq(ns[a], ns[b])

NoEnvOp == [op |-> "none", node |-> None, name |-> "x", val |-> None]

EnvInit ==
    /\ nodes = <<>>
    /\ handles = <<>>
    /\ elast = NoEnvOp
    /\ input = <<>>
    /\ stream = <<>>
    /\ lexed = "none"
    /\ built = "none"
    /\ vin = [ctor |-> "Void", i |-> 0, w |-> {}, b |-> FALSE]
    /\ val = {}
    /\ vdone = TRUE
    /\ heap = <<>>
    /\ head = {}
    /\ venv = <<>>
    /\ phase = "mutator"
    /\ status = "idle"
    /\ allocLog = <<>>
    /\ rootReach = {}
    /\ lastOp = "none"

\* a constructor returns the handle on the cell it made
Create(cell) ==
    /\ Len(nodes) < MaxEnvs
    /\ Len(handles) < MaxHandles
    /\ nodes' = Append(nodes, cell)
    /\ handles' = Append(handles, Len(nodes) + 1)
    /\ elast' = NoEnvOp
    /\ UNCHANGED <<valueVars, heapVars, readerVars>>

New == Create(EnvNew)
FromHashmap(map) == Create(from_hashmap(map))
Extend(h) == Create(extend(nodes, handles[h]))
ProcedureLocal(h) == Create(procedure_local(nodes, handles[h]))

\* #[derive(Clone)] : another handle on the same cell, kept next to the
\* handle it was cloned from
Clone(h) ==
    /\ Len(handles) < MaxHandles
    /\ handles' = SubSeq(handles, 1, h) \o <<handles[h]>>
                     \o SubSeq(handles, h + 1, Len(handles))
    /\ elast' = NoEnvOp
    /\ UNCHANGED nodes
    /\ UNCHANGED <<valueVars, heapVars, readerVars>>

\* Environment::define_variable
Define(h, name, value) ==
    /\ nodes' = [nodes EXCEPT ![handles[h]] = define_variable(@, name, value)]
    /\ elast' = [op |-> "define", node |-> handles[h], name |-> name, val |-> value]
    /\ UNCHANGED handles
    /\ UNCHANGED <<valueVars, heapVars, readerVars>>

\* Environment::lookup_variable_value
Lookup(h, name) ==
    /\ elast' = [op |-> "lookup", node |-> handles[h], name |-> name,
                 val |-> lookup_variable_value(nodes, handles[h], name)]
    /\ UNCHANGED <<nodes, handles>>
    /\ UNCHANGED <<valueVars, heapVars, readerVars>>

\* h == g, for two handles held
Compare(h, g) ==
    /\ elast' = [op |-> "eq",
                 which |-> IF h = g THEN "self"
                           ELSE IF handles[h] = handles[g] THEN "clone" ELSE "other",
                 val |-> env_eq(nodes, handles[h], handles[g])]
    /\ UNCHANGED <<nodes, handles>>
    /\ UNCHANGED <<valueVars, heapVars, readerVars>>

HandleIds == 1..Len(handles)

EnvNext ==
    \/ New
    \/ \E m \in BindingMaps : FromHashmap(m)
    \/ \E h \in HandleIds : Extend(h)
    \/ \E h \in HandleIds : ProcedureLocal(h)
    \/ \E h \in HandleIds : Clone(h)
    \/ \E h \in HandleIds, n \in Names, v \in Objects : Define(h, n, v)
    \/ \E h \in HandleIds, n \in Names : Lookup(h, n)
    \/ \E h \in HandleIds, g \in HandleIds : Compare(h, g)

SpecEnv == EnvInit /\ [][EnvNext]_vars

----------------------------------------------------------------------------
(* src/parser.rs : the lexer.  The source text is a sequence of            *)
(* one-character strings; Chars stands for the character classes the       *)
(* lexer tells apart.                                                       *)

MaxLen == 4
Letters == {"t", "f", "n", "i", "l"}
Digits == {"0", "1"}
Chars == {"(", ")", "'", "\"", "#", " ", "\\", "@"} \cup Letters \cup Digits

\* the source texts of at most MaxLen characters
Inputs == SeqsUpTo(Chars, MaxLen)

is_whitespace(c) == c = " "
is_digit(c) == c \in Digits

is_symbol_char(c, start) ==
    IF c \in Letters THEN TRUE
    ELSE IF is_digit(c) THEN ~start
    ELSE FALSE

LeftParen == [t |-> "LeftParen"]
RightParen == [t |-> "RightParen"]
Quote == [t |-> "Quote"]
NilToken == [t |-> "Nil"]
BoolToken(b) == [t |-> "Bool", b |-> b]
StringToken(s) == [t |-> "String", s |-> s]
NumberToken(s) == [t |-> "Number", s |-> s]
SymbolToken(s) == [t |-> "Symbol", s |-> s]

\* what a lexer call ends with: Ok(tokens), Err(ParseError) or a panic
NotRun == [st |-> "none"]
LexOk(toks) == [st |-> "ok", tokens |-> toks]
LexErr(e) == [st |-> "err", err |-> e]
Panicked == [st |-> "panic"]

NilText == <<"n", "i", "l">>

RECURSIVE _parse(_, _, _)
RECURSIVE parse_string_RawEscape(_, _, _, _)
RECURSIVE parse_string(_, _, _, _)
RECURSIVE parse_number(_, _, _, _)
RECURSIVE parse_symbol(_, _, _, _)

\* mutant: a backslash is kept as an ordinary character and escapes nothing
parse_string_RawEscape(s, i, buf, toks) ==
    IF i > Len(s) THEN LexErr("EOF")
    ELSE IF s[i] = "\"" THEN _parse(s, i + 1, Append(toks, StringToken(buf)))
    ELSE parse_string_RawEscape(s, i + 1, Append(buf, s[i]), toks)
\* i is the position of the character the next call of next() returns
parse_string(s, i, buf, toks) ==
    IF i > Len(s) THEN LexErr("EOF")
    ELSE IF s[i] = "\\"
         THEN IF i + 1 > Len(s) THEN LexErr("EOF")
              ELSE IF s[i + 1] = "n" THEN parse_string(s, i + 2, Append(buf, "\n"), toks)
              ELSE IF s[i + 1] = "t" THEN parse_string(s, i + 2, Append(buf, "\t"), toks)
              ELSE parse_string(s, i + 2, Append(buf, s[i + 1]), toks)
    ELSE IF s[i] = "\"" THEN _parse(s, i + 1, Append(toks, StringToken(buf)))
    ELSE parse_string(s, i + 1, Append(buf, s[i]), toks)

parse_bool(s, i, toks) ==
    IF i > Len(s) THEN LexErr("EOF")
    ELSE IF s[i] \notin {"t", "f"} THEN LexErr("Input")
    ELSE LET toks1 == Append(toks, BoolToken(s[i] = "t"))
         IN IF i + 1 > Len(s) THEN Panicked
            ELSE IF is_whitespace(s[i + 1]) THEN _parse(s, i + 2, toks1)
            ELSE IF s[i + 1] = "(" THEN _parse(s, i + 2, Append(toks1, LeftParen))
            ELSE IF s[i + 1] = ")" THEN _parse(s, i + 2, Append(toks1, RightParen))
            ELSE Panicked

parse_number(s, i, buf, toks) ==
    IF i > Len(s) THEN _parse(s, i, Append(toks, NumberToken(buf)))
    ELSE IF is_whitespace(s[i]) THEN _parse(s, i + 1, Append(toks, NumberToken(buf)))
    ELSE IF is_digit(s[i]) THEN parse_number(s, i + 1, Append(buf, s[i]), toks)
    ELSE IF s[i] = "("
         THEN _parse(s, i + 1, Append(Append(toks, NumberToken(buf)), LeftParen))
    ELSE IF s[i] = ")"
         THEN _parse(s, i + 1, Append(Append(toks, NumberToken(buf)), RightParen))
    ELSE LexErr("Input")

parse_symbol(s, i, buf, toks) ==
    IF i > Len(s) THEN _parse(s, i, Append(toks, SymbolToken(buf)))
    ELSE IF is_symbol_char(s[i], FALSE) THEN parse_symbol(s, i + 1, Append(buf, s[i]), toks)
    ELSE IF is_whitespace(s[i])
         THEN IF buf = NilText THEN _parse(s, i + 1, Append(toks, NilToken))
              ELSE _parse(s, i + 1, Append(toks, SymbolToken(buf)))
    ELSE IF s[i] = ")"
         THEN IF buf = NilText
              THEN _parse(s, i + 1, Append(Append(toks, NilToken), RightParen))
              ELSE _parse(s, i + 1, Append(Append(toks, SymbolToken(buf)), RightParen))
    ELSE LexErr("Input")

_parse(s, i, toks) ==
    IF i > Len(s) THEN LexOk(toks)
    ELSE IF s[i] = "(" THEN _parse(s, i + 1, Append(toks, LeftParen))
    ELSE IF s[i] = ")" THEN _parse(s, i + 1, Append(toks, RightParen))
    ELSE IF s[i] = "'" THEN _parse(s, i + 1, Append(toks, Quote))
    ELSE IF s[i] = "\"" THEN parse_string(s, i + 1, <<>>, toks)
    ELSE IF s[i] = "#" THEN parse_bool(s, i + 1, toks)
    ELSE IF is_whitespace(s[i]) THEN _parse(s, i + 1, toks)
    ELSE IF is_digit(s[i]) THEN parse_number(s, i + 1, <<s[i]>>, toks)
    ELSE IF is_symbol_char(s[i], TRUE) THEN parse_symbol(s, i + 1, <<s[i]>>, toks)
    ELSE Panicked

parse(s) == _parse(s, 1, <<>>)

----------------------------------------------------------------------------
(* src/parser.rs : the AST builder.  An Object is Nil, Bool, Number,       *)
(* String, Symbol or a pair built by cons.                                  *)

ObjNil == [k |-> "Nil"]
ObjBool(b) == [k |-> "Bool", b |-> b]
ObjNumber(n) == [k |-> "Number", n |-> n]
ObjString(s) == [k |-> "String", s |-> s]
ObjSymbol(s) == [k |-> "Symbol", s |-> s]
cons(a, d) == [k |-> "Pair", car |-> a, cdr |-> d]

\* Object::push: the list with x added as its last element
RECURSIVE push(_, _)
push(list, x) ==
    IF list.k = "Pair" THEN cons(list.car, push(list.cdr, x)) ELSE cons(x, ObjNil)

DigitValue(c) == IF c = "0" THEN 0 ELSE 1

\* str::parse::<BigInt> of a string of digits
RECURSIVE ParseBigInt(_)
ParseBigInt(ds) ==
    IF ds = <<>> THEN 0
    ELSE 10 * ParseBigInt(SubSeq(ds, 1, Len(ds) - 1)) + DigitValue(ds[Len(ds)])

QuoteText == <<"q", "u", "o", "t", "e">>

\* a builder call ends with the Object read and the position of the next
\* token, or with a panic
Read(o, i) == [st |-> "ok", obj |-> o, i |-> i]

RECURSIVE parse_expr_Prepend(_, _, _)
RECURSIVE parse_expr(_, _, _)
RECURSIVE parse_quote(_, _)

parse_quote(toks, i) ==
    IF i > Len(toks) THEN Panicked
    ELSE IF toks[i].t = "Symbol"
         THEN Read(cons(ObjSymbol(QuoteText), cons(ObjSymbol(toks[i].s), ObjNil)), i + 1)
    ELSE IF toks[i].t = "Number" THEN Read(ObjNumber(ParseBigInt(toks[i].s)), i + 1)
    ELSE IF toks[i].t = "String" THEN Read(ObjString(toks[i].s), i + 1)
    ELSE IF toks[i].t = "LeftParen"
         THEN LET r == parse_expr(toks, i + 1, ObjNil)
              IN IF r.st = "panic" THEN Panicked
                 ELSE Read(cons(ObjSymbol(QuoteText), cons(r.obj, ObjNil)), r.i)
    ELSE Panicked

Literal(tok) ==
    IF tok.t = "Nil" THEN ObjNil
    ELSE IF tok.t = "Bool" THEN ObjBool(tok.b)
    ELSE IF tok.t = "Number" THEN ObjNumber(ParseBigInt(tok.s))
    ELSE IF tok.t = "String" THEN ObjString(tok.s)
    ELSE ObjSymbol(tok.s)

\* mutant: each datum read is put in front of the list read so far
parse_expr_Prepend(toks, i, list) ==
    IF i > Len(toks) THEN Panicked
    ELSE IF toks[i].t = "RightParen" THEN Read(list, i + 1)
    ELSE IF toks[i].t = "LeftParen"
         THEN LET r == parse_expr_Prepend(toks, i + 1, ObjNil)
              IN IF r.st = "panic" THEN Panicked
                 ELSE parse_expr_Prepend(toks, r.i, cons(r.obj, list))
    ELSE IF toks[i].t = "Quote"
         THEN LET r == parse_quote(toks, i + 1)
              IN IF r.st = "panic" THEN Panicked
                 ELSE parse_expr_Prepend(toks, r.i, cons(r.obj, list))
    ELSE parse_expr_Prepend(toks, i + 1, cons(Literal(toks[i]), list))
\* the loop of parse_expr with parens = 1: it ends at a RightParen, and the
\* assertion fails when the tokens run out first
parse_expr(toks, i, list) ==
    IF i > Len(toks) THEN Panicked
    ELSE IF toks[i].t = "RightParen" THEN Read(list, i + 1)
    ELSE IF toks[i].t = "LeftParen"
         THEN LET r == parse_expr(toks, i + 1, ObjNil)
              IN IF r.st = "panic" THEN Panicked
                 ELSE parse_expr(toks, r.i, push(list, r.obj))
    ELSE IF toks[i].t = "Quote"
         THEN LET r == parse_quote(toks, i + 1)
              IN IF r.st = "panic" THEN Panicked
                 ELSE parse_expr(toks, r.i, push(list, r.obj))
    ELSE parse_expr(toks, i + 1, push(list, Literal(toks[i])))

BuildOk(es) == [st |-> "ok", exprs |-> es]

RECURSIVE BuildFrom(_, _, _)
BuildFrom(toks, i, exprs) ==
    IF i > Len(toks) THEN BuildOk(exprs)
    ELSE IF toks[i].t = "LeftParen"
         THEN LET r == parse_expr(toks, i + 1, ObjNil)
              IN IF r.st = "panic" THEN Panicked
                 ELSE BuildFrom(toks, r.i, Append(exprs, r.obj))
    ELSE IF toks[i].t = "RightParen" THEN Panicked
    ELSE IF toks[i].t = "Quote"
         THEN LET r == parse_quote(toks, i + 1)
              IN IF r.st = "panic" THEN Panicked
                 ELSE BuildFrom(toks, r.i, Append(exprs, r.obj))
    ELSE BuildFrom(toks, i + 1, Append(exprs, Literal(toks[i])))

build_ast(toks) == BuildFrom(toks, 1, <<>>)

----------------------------------------------------------------------------
(* The reader machine: a source text is lexed, and the tokens of a         *)
(* successful lexing are built into Objects                                 *)

ReaderInit ==
    /\ input \in Inputs
    /\ stream = <<>>
    /\ lexed = NotRun
    /\ built = NotRun
    /\ vin = [ctor |-> "Void", i |-> 0, w |-> {}, b |-> FALSE]
    /\ val = {}
    /\ vdone = TRUE
    /\ heap = <<>>
    /\ head = {}
    /\ venv = <<>>
    /\ phase = "mutator"
    /\ status = "idle"
    /\ allocLog = <<>>
    /\ rootReach = {}
    /\ lastOp = "none"
    /\ nodes = <<>>
    /\ handles = <<>>
    /\ elast = "none"

Parse ==
    /\ lexed = NotRun
    /\ lexed' = parse(input)
    /\ UNCHANGED <<input, built, stream, valueVars, heapVars, envVars>>

BuildAst ==
    /\ lexed.st = "ok"
    /\ built = NotRun
    /\ built' = build_ast(lexed.tokens)
    /\ UNCHANGED <<input, lexed, stream, valueVars, heapVars, envVars>>

ReaderNext ==
    \/ Parse
    \/ BuildAst

SpecReader == ReaderInit /\ [][ReaderNext]_vars

----------------------------------------------------------------------------
(* The builder machine: Token::build_ast is public and takes any Vec of    *)
(* tokens, so a caller hands it a token stream of its own                   *)

MaxTokens == 6
TokenPool ==
    {LeftParen, RightParen, Quote, NilToken, BoolToken(TRUE),
     StringToken(<<"n">>), NumberToken(<<"1">>), SymbolToken(<<"f">>)}

BuilderInit ==
    /\ \E n \in 0..MaxTokens : stream \in [1..n -> TokenPool]
    /\ built = NotRun
    /\ input = <<>>
    /\ lexed = NotRun
    /\ vin = [ctor |-> "Void", i |-> 0, w |-> {}, b |-> FALSE]
    /\ val = {}
    /\ vdone = TRUE
    /\ heap = <<>>
    /\ head = {}
    /\ venv = <<>>
    /\ phase = "mutator"
    /\ status = "idle"
    /\ allocLog = <<>>
    /\ rootReach = {}
    /\ lastOp = "none"
    /\ nodes = <<>>
    /\ handles = <<>>
    /\ elast = "none"

Build ==
    /\ built = NotRun
    /\ built' = build_ast(stream)
    /\ UNCHANGED <<input, lexed, stream, valueVars, heapVars, envVars>>

BuilderNext == Build

SpecBuilder == BuilderInit /\ [][BuilderNext]_vars

ValueNext ==
    \/ MakeVoid
    \/ MakeNil
    \/ MakeBool
    \/ MakeInteger
    \/ MakeFloat
    \/ MakeSymbol
    \/ MakeLambda
    \/ MakePair
    \/ MakeVec
    \/ MakeString
    \/ MakeHashMap

SpecValue == ValueInit /\ [][ValueNext]_vars

Holds(k, v) ==
    CASE k = "Void" -> is_void(v)
      [] k = "Nil" -> is_nil(v)
      [] k = "Bool" -> is_bool(v)
      [] k = "Integer" -> is_integer(v)
      [] k = "Float" -> is_float(v)
      [] k = "Symbol" -> is_symbol(v)
      [] k = "Lambda" -> is_lambda(v)
      [] k = "Pair" -> is_pair(v)
      [] k = "Vec" -> is_vec(v)
      [] k = "String" -> is_string(v)
      [] k = "HashMap" -> is_hashmap(v)

\* C1: every constructed Value (floats being ordinary numbers, +infinity,
\* -infinity or quiet NaNs) satisfies exactly one type predicate, the one of
\* the constructor that made it.
C1_TagExclusivity ==
    (vdone /\ (vin.ctor = "Float" => (~IsNaN(vin.w) \/ IsQuietNaN(vin.w))))
        => {k \in Kinds : Holds(k, val)} = {vin.ctor}

ImmTag(c) ==
    CASE c = "Bool" -> BOOL_TAG
      [] c = "Integer" -> INT_TAG
      [] c = "Symbol" -> SYMBOL_TAG

\* C2: immediates round-trip: to_integer(Integer(i)) = i and is_integer
\* holds for every int32 i, to_symbol(Symbol(s)) = s for s < 2^32,
\* Bool(b).is_true() = b and is_false() = ~b, to_float(Float(f)) == f for
\* non-NaN f, and the payload leaves the NaN and tag bits as the constructor
\* set them.
C2_RoundTrip ==
    vdone =>
        /\ vin.ctor = "Integer" => (to_integer(val) = vin.i /\ is_integer(val))
        /\ vin.ctor = "Symbol" => to_symbol(val) = vin.w
        /\ vin.ctor = "Bool" => (is_true(val) = vin.b /\ is_false(val) = ~vin.b)
        /\ (vin.ctor = "Float" /\ ~IsNaN(vin.w)) => FloatEq(to_float(val), vin.w)
        /\ vin.ctor \in {"Bool", "Integer", "Symbol"} =>
               And(val, Or(NAN, Or(TAG_MASK, IMMEDIATE_MASK))) = Or(NAN, ImmTag(vin.ctor))

C2_Witness == vdone /\ vin.ctor = "Integer" /\ vin.i < 0 /\ to_integer(val) = vin.i


\* bits 48..63 all equal to bit 47
IsCanonical(a) == (48..63) \subseteq a \/ (47..63) \cap a = {}

\* C20: for a canonical address a and a heap kind, the Value
\* NAN | tag | (a & (2^48 - 1)) satisfies the predicate of that kind and of
\* no other heap kind, and to_pointer gives back a, with bit 47 clear and
\* with bit 47 set.
C20_PointerRoundTrip ==
    (vdone /\ vin.ctor \in PointerCtors /\ IsCanonical(vin.w)) =>
        /\ val = TaggedPointer(KindTag(vin.ctor), vin.w)
        /\ {k \in PointerCtors : Holds(k, val)} = {vin.ctor}
        /\ to_pointer(val) = vin.w

\* an address in the upper half, bits 47..63 set
C20_Witness ==
    /\ vdone
    /\ vin.ctor = "HashMap"
    /\ 47 \in vin.w
    /\ IsCanonical(vin.w)
    /\ to_pointer(val) = vin.w

----------------------------------------------------------------------------
(* claims about the heap machine *)

Reverse(s) == [i \in 1..Len(s) |-> s[Len(s) + 1 - i]]
Range(s) == {s[i] : i \in 1..Len(s)}
NoRepeats(s) == \A i, j \in 1..Len(s) : s[i] = s[j] => i = j

\* what a sweep that ran to completion leaves behind
SweepPost ==
    lastOp.op = "sweep" =>
        /\ Live(heap) = lastOp.reach
        /\ Range(lastOp.freed) = lastOp.pre \ lastOp.reach
        /\ NoRepeats(lastOp.freed)
        /\ Range(Walk(heap, head)) = lastOp.reach
        /\ NoRepeats(Walk(heap, head))
        /\ \A k \in Live(heap) : ~Marked(heap[k])

\* C3: marking every element of a set R of heap Values and then sweeping runs to
\* completion, and afterwards exactly the objects reachable from R are on
\* the global object list and live, every other object was unlinked and
\* freed exactly once, and no survivor has its mark bit set.
C3_GcPreservesReachable ==
    /\ status = "panic" => ~IsHeapValue(lastOp.p)
    /\ SweepPost

\* C4: the global object list, walked from the head, holds exactly the
\* allocated objects, each once, most recent first, and each new header is
\* written with mark bit 0.
C4_AllocationThreading ==
    status = "ok" =>
        /\ Walk(heap, head) = Reverse(allocLog)
        /\ Range(allocLog) = Live(heap)
        /\ NoRepeats(allocLog)
        /\ phase = "mutator" => \A k \in Live(heap) : ~Marked(heap[k])

\* two allocations threaded most recent first, the newer at the lower address
C4_Witness ==
    /\ lastOp.op = "alloc"
    /\ allocLog = <<2, 1>>
    /\ Walk(heap, head) = <<1, 2>>
    /\ heap[1].kind = "Pair"

\* C5: set_car(p, v) leaves car(p) = v and set_cdr(p, v) leaves cdr(p) = v;
\* the other field of p, the header word of p, every other heap object and
\* the list head are as before.
C5_PairMutation ==
    [][(lastOp'.op \in {"set_car", "set_cdr"}) =>
        LET p == lastOp'.p
            v == lastOp'.v
            k == Deref(p)
        IN /\ lastOp'.op = "set_car" =>
                (car(heap', p) = v /\ cdr(heap', p) = cdr(heap, p))
           /\ lastOp'.op = "set_cdr" =>
                (cdr(heap', p) = v /\ car(heap', p) = car(heap, p))
           /\ heap'[k].gc = heap[k].gc
           /\ heap'[k].kind = "Pair"
           /\ \A j \in ObjIds \ {k} : heap'[j] = heap[j]
           /\ head' = head]_vars

\* set_car has stored a value that differs from the pair's cdr
C5_Witness ==
    /\ lastOp.op = "set_car"
    /\ car(heap, lastOp.p) = lastOp.v
    /\ cdr(heap, lastOp.p) # lastOp.v
    /\ is_pair(lastOp.v)

\* a heap of pairs, vectors, strings and closures
NoHashMap(h) == \A k \in ObjIds : h[k].kind # "HashMap"

\* what mark(r) is to leave behind: the marks there were, and one on every
\* object reachable from r
MarkedAsReached(r) ==
    \A k \in Live(heap) :
        Marked(heap'[k]) <=> (Marked(heap[k]) \/ k \in Reach(heap, {r}))

\* C17: on a heap of pairs, vectors, strings and closures, mark(root)
\* completes for every root Value, a float of any bit pattern included,
\* and afterwards an object is marked exactly when it was marked before or
\* is reachable from root.
C17_MarkReachability ==
    [][lastOp'.op = "mark" =>
        \A r \in RootPool(heap) :
            (Mark(r) /\ NoHashMap(heap)) => (status' = "ok" /\ MarkedAsReached(r))]_vars

\* the hash maps mark(r) is to pop: r itself, or a child of an object
\* reachable from r
HashMapsFrom(h, r) == {k \in Reach(h, {r}) : h[k].kind = "HashMap"}

\* C18: when mark pops a hash map, as the root or as a child of another
\* object, it marks the hash map and pushes each key and each value, so
\* that mark returns with every object reachable from the root marked,
\* those reachable only through the hash map included.
C18_HashMapsTraced ==
    [][lastOp'.op = "mark" =>
        \A r \in Pool(heap) :
            (Mark(r) /\ HashMapsFrom(heap, r) # {}) =>
                /\ status' = "ok"
                /\ \A k \in Reach(heap, {r}) : Marked(heap'[k])]_vars

\* C19: mark(root) terminates on every heap graph, one with cycles through
\* pairs, vectors, hash maps or a closure bound in its own captured
\* environment included; an object popped with its mark set is skipped, so
\* that the children of each object are pushed at most once in a call.
C19_MarkTerminates ==
    [][lastOp'.op = "mark" =>
        \A r \in Pool(heap) :
            Mark(r) => (status' = "ok" /\ NoRepeats(mark(r, heap).ex))]_vars

\* a header word without its bit 0: the link to the next object and its type
LinkBits(gc) == And(gc, Not({0}))
\* an object without its header word: its kind and its payload
Payload(o) == [o EXCEPT !.gc = {}]

\* C24: mark(root) changes at most bit 0 of an object's header word: the
\* link and the type held in the other bits of the word, the payload of
\* every object, the captured environments, the head of the global object
\* list and the order of the list are after mark what they were before,
\* and a second mark(root) after one that returned returns and changes
\* nothing.
C24_MarkOnlyMarkBit ==
    [][lastOp'.op = "mark" =>
        \A r \in RootPool(heap) :
            Mark(r) =>
                /\ \A k \in ObjIds :
                      /\ LinkBits(heap'[k].gc) = LinkBits(heap[k].gc)
                      /\ LinkType(heap'[k].gc) = LinkType(heap[k].gc)
                      /\ LinkPtr(heap'[k].gc) = LinkPtr(heap[k].gc)
                      /\ Payload(heap'[k]) = Payload(heap[k])
                /\ head' = head
                /\ venv' = venv
                /\ Walk(heap', head') = Walk(heap, head)
                /\ status' = "ok" =>
                      LET again == mark(r, heap')
                      IN again.st = "ok" /\ again.h = heap']_vars

\* a mark that returned and left marked a pair that links to the object
\* allocated before it and holds a pointer, next to an object left unmarked
C24_Witness ==
    /\ lastOp.op = "mark"
    /\ status = "ok"
    /\ \E k \in Live(heap), j \in Live(heap) :
         /\ heap[k].kind = "Pair"
         /\ Marked(heap[k])
         /\ LinkPtr(heap[k].gc) = AddrOf(j)
         /\ IsHeapValue(heap[k].car)
         /\ ~Marked(heap[j])

----------------------------------------------------------------------------
(* claims about the printing machine *)

\* the cars along the cdr chain of v, and the value that ends the chain
RECURSIVE SpineCars(_, _)
SpineCars(h, v) ==
    IF is_pair(v) THEN <<car(h, v)>> \o SpineCars(h, cdr(h, v)) ELSE <<>>
RECURSIVE SpineEnd(_, _)
SpineEnd(h, v) == IF is_pair(v) THEN SpineEnd(h, cdr(h, v)) ELSE v

\* the texts, one space between each two
RECURSIVE JoinSpaced(_)
JoinSpaced(ts) ==
    IF Len(ts) = 0 THEN ""
    ELSE IF Len(ts) = 1 THEN ts[1]
    ELSE ts[1] \o " " \o JoinSpaced(Tail(ts))

ListText(h, v) ==
    LET cars == SpineCars(h, v)
        end == SpineEnd(h, v)
    IN "(" \o JoinSpaced([i \in 1..Len(cars) |-> fmt(h, cars[i])])
           \o (IF end = Nil THEN ")" ELSE " . " \o fmt(h, end) \o ")")

\* C15: a pair whose cdr chain ends in Nil prints as ( the printed cars
\* with one space between them ), one whose chain ends in another non-pair
\* value prints the cars the same way, then space dot space, the printed
\* end and ); Nil prints as (), the booleans as #t and #f, Void as nothing
\* and a closure as #<procedure>.
C15_PairPrinting ==
    lastOp.op = "display" =>
        LET v == lastOp.p
        IN /\ is_pair(v) => lastOp.out = ListText(heap, v)
           /\ v = Nil => lastOp.out = "()"
           /\ v = True => lastOp.out = "#t"
           /\ v = False => lastOp.out = "#f"
           /\ v = Void => lastOp.out = ""
           /\ is_lambda(v) => lastOp.out = "#<procedure>"

\* the pair ((1) . #t): a proper list printed inside a dotted pair
C15_Witness ==
    /\ lastOp.op = "display"
    /\ is_pair(lastOp.p)
    /\ lastOp.out = "((1) . #t)"

----------------------------------------------------------------------------
(* claims about the environment machine *)

NodeIds == 1..Len(nodes)

\* the scopes from cell n up the parent chain, nearest first
RECURSIVE Chain(_, _)
Chain(ns, n) == IF n = None THEN <<>> ELSE <<n>> \o Chain(ns, ns[n].parent)

Nearest(ns, n, name) ==
    LET ch == Chain(ns, n)
        hits == {i \in 1..Len(ch) : ns[ch[i]].bindings[name] # None}
    IN IF hits = {} THEN None
       ELSE ns[ch[CHOOSE i \in hits : \A j \in hits : i <= j]].bindings[name]

\* C6: lookup(name) returns the value bound in the first scope, from the
\* scope up its parent chain, that binds name, and absent exactly when no
\* scope on the chain binds it.
C6_LookupNearest ==
    elast.op = "lookup" => elast.val = Nearest(nodes, elast.node, elast.name)

\* define(env, x, 1); child = extend(env); define(child, x, 2); lookup(child, x)
C6_Witness ==
    /\ elast.op = "lookup"
    /\ elast.name = "x"
    /\ elast.val = 2
    /\ nodes[elast.node].made = "extend"
    /\ nodes[elast.node].bindings["x"] = 2
    /\ nodes[nodes[elast.node].parent].bindings["x"] = 1
    /\ lookup_variable_value(nodes, nodes[elast.node].parent, "x") = 1

\* a step in which define changed what cell d binds to name
DefineStep(d, name) ==
    /\ Len(nodes') = Len(nodes)
    /\ nodes'[d].bindings[name] # nodes[d].bindings[name]

\* the scope a cell was extended from, as extend was called
ExtendedFrom(c) == IF nodes[c].made = "extend" THEN nodes[c].of ELSE None

\* the scopes from c up to, and without, its ancestor-by-extend d; <<>> when
\* d is no such ancestor
RECURSIVE PathTo(_, _)
PathTo(c, d) ==
    IF c = None THEN <<>>
    ELSE IF ExtendedFrom(c) = d THEN <<c>>
    ELSE LET up == PathTo(ExtendedFrom(c), d)
         IN IF up = <<>> THEN <<>> ELSE <<c>> \o up

\* C7: a define through one handle of a cell is seen at once by lookup
\* through every handle of that cell, and a define on a parent is seen
\* through every scope extended from it, directly or not, for every name
\* the scopes in between do not bind.
C7_SharedHandles ==
    [][nodes' # nodes => \A d \in NodeIds, name \in Names :
        DefineStep(d, name) =>
            LET v == nodes'[d].bindings[name]
            IN /\ \A g \in 1..Len(handles') :
                    handles'[g] = d =>
                        lookup_variable_value(nodes', handles'[g], name) = v
               /\ \A c \in NodeIds :
                    LET path == PathTo(c, d)
                    IN (path # <<>> /\ \A i \in 1..Len(path) :
                                         nodes[path[i]].bindings[name] = None)
                         => lookup_variable_value(nodes', c, name) = v]_vars

\* a define on a cell held through two handles, seen through a child
\* extended from it before
C7_Witness ==
    /\ elast.op = "define"
    /\ Cardinality({g \in 1..Len(handles) : handles[g] = elast.node}) >= 2
    /\ \E c \in NodeIds :
         /\ nodes[c].made = "extend"
         /\ nodes[c].of = elast.node
         /\ nodes[c].bindings[elast.name] = None
         /\ lookup_variable_value(nodes, c, elast.name) = elast.val

LocalCopies == {c \in NodeIds : nodes[c].made = "local"}
SameLookups(ns1, n1, ns2, n2) ==
    \A name \in Names :
        lookup_variable_value(ns1, n1, name) = lookup_variable_value(ns2, n2, name)

\* C8: the scope procedure_local returns starts with the lookups of the
\* original; a define on the copy changes no lookup through the original, a
\* define on the original changes no lookup through the copy, and a define
\* on the original's parent is seen through the original and through the
\* copy, each for the names it does not bind itself.
C8_ProcedureLocal ==
    [][nodes' # nodes =>
       /\ (Len(nodes') = Len(nodes) + 1 /\ nodes'[Len(nodes')].made = "local") =>
            SameLookups(nodes', Len(nodes'), nodes, nodes'[Len(nodes')].of)
       /\ \A d \in NodeIds, name \in Names :
            DefineStep(d, name) =>
                /\ d \in LocalCopies => SameLookups(nodes', nodes[d].of, nodes, nodes[d].of)
                /\ \A c \in LocalCopies :
                     nodes[c].of = d => SameLookups(nodes', c, nodes, c)
                /\ \A c \in LocalCopies :
                     nodes[nodes[c].of].parent = d =>
                        /\ nodes[nodes[c].of].bindings[name] = None =>
                             lookup_variable_value(nodes', nodes[c].of, name)
                                 = nodes'[d].bindings[name]
                        /\ nodes[c].bindings[name] = None =>
                             lookup_variable_value(nodes', c, name)
                                 = nodes'[d].bindings[name]]_vars

\* a define on a procedure-local copy that the original does not see
C8_Witness ==
    /\ elast.op = "define"
    /\ elast.node \in LocalCopies
    /\ lookup_variable_value(nodes, elast.node, elast.name) = elast.val
    /\ lookup_variable_value(nodes, nodes[elast.node].of, elast.name) # elast.val
    /\ nodes[nodes[elast.node].of].parent # None

\* C16: comparing an Environment handle with an Environment handle, itself
\* and a duplicate of itself included, never yields equal.
C16_NeverEqual == elast.op = "eq" => elast.val = FALSE

\* a handle compared with itself
C16_Witness == elast.op = "eq" /\ elast.which = "self" /\ elast.val = FALSE

\* the scopes above cell n on its parent chain
Ancestors(ns, n) == Range(Tail(Chain(ns, n)))

\* C21: define(name, value) on a scope changes only that scope's binding of
\* name: no other cell and no other field of the scope changes, every lookup
\* of any name through the parent or any other ancestor returns what it
\* returned before, and so does every lookup of a different name through the
\* scope itself.
C21_DefineLocal ==
    [][(elast'.op = "define" /\ nodes' # nodes) =>
        LET d == elast'.node
            name == elast'.name
        IN /\ Len(nodes') = Len(nodes)
           /\ nodes'[d].bindings[name] = elast'.val
           /\ \A c \in NodeIds : c # d => nodes'[c] = nodes[c]
           /\ nodes'[d].parent = nodes[d].parent
           /\ \A n \in Names : n # name =>
                 /\ nodes'[d].bindings[n] = nodes[d].bindings[n]
                 /\ lookup_variable_value(nodes', d, n)
                      = lookup_variable_value(nodes, d, n)
           /\ \A a \in Ancestors(nodes, d), n \in Names :
                 lookup_variable_value(nodes', a, n)
                     = lookup_variable_value(nodes, a, n)]_vars

\* a define that shadows what the grandparent binds to the name, on a scope
\* that binds the other name too
C21_Witness ==
    /\ elast.op = "define"
    /\ nodes[elast.node].parent # None
    /\ nodes[nodes[elast.node].parent].parent # None
    /\ LET g == nodes[nodes[elast.node].parent].parent
       IN /\ nodes[g].bindings[elast.name] \notin {None, elast.val}
          /\ lookup_variable_value(nodes, g, elast.name) = nodes[g].bindings[elast.name]
          /\ lookup_variable_value(nodes, nodes[elast.node].parent, elast.name)
               = nodes[g].bindings[elast.name]
    /\ lookup_variable_value(nodes, elast.node, elast.name) = elast.val
    /\ \E n \in Names : n # elast.name /\ nodes[elast.node].bindings[n] # None

----------------------------------------------------------------------------
(* claims about the reader *)

\* C9: the lexer never emits Symbol("nil"): a symbol whose text is exactly
\* nil becomes the Nil token whether whitespace, a closing parenthesis or
\* the end of the input ends it, and the input nil is read as the single
\* Object Nil.
C9_NilToken ==
    /\ lexed.st = "ok" =>
         \A i \in 1..Len(lexed.tokens) :
            lexed.tokens[i].t = "Symbol" => lexed.tokens[i].s # NilText
    /\ (input = NilText /\ lexed # NotRun) => lexed = LexOk(<<NilToken>>)
    /\ (input = NilText /\ built # NotRun) => built = BuildOk(<<ObjNil>>)

\* the texts that are one literal and nothing else
IsNumberText(s) == s # <<>> /\ \A i \in 1..Len(s) : is_digit(s[i])
IsSymbolText(s) ==
    /\ s # <<>>
    /\ is_symbol_char(s[1], TRUE)
    /\ \A i \in 2..Len(s) : is_symbol_char(s[i], FALSE)
\* from position i on, s is the rest of a string literal and its closing quote
RECURSIVE IsStringRest(_, _)
IsStringRest(s, i) ==
    IF i > Len(s) THEN FALSE
    ELSE IF s[i] = "\"" THEN i = Len(s)
    ELSE IF s[i] = "\\" THEN IsStringRest(s, i + 2)
    ELSE IsStringRest(s, i + 1)
IsStringText(s) == s # <<>> /\ s[1] = "\"" /\ IsStringRest(s, 2)
TrueText == <<"#", "t">>
FalseText == <<"#", "f">>

\* the Object a literal text denotes; a string literal by its kind alone
Denotes(s, o) ==
    IF s = TrueText THEN o = ObjBool(TRUE)
    ELSE IF s = FalseText THEN o = ObjBool(FALSE)
    ELSE IF s = NilText THEN o = ObjNil
    ELSE IF IsNumberText(s) THEN o = ObjNumber(ParseBigInt(s))
    ELSE IF IsSymbolText(s) THEN o = ObjSymbol(s)
    ELSE o.k = "String"

IsBareLiteral(s) ==
    \/ s \in {TrueText, FalseText}
    \/ IsNumberText(s)
    \/ IsSymbolText(s)
    \/ IsStringText(s)

\* C10: for an input that is exactly one literal, with no character after
\* it, lexing and then AST building end without a panic and without an
\* error, and the result is the one Object the literal denotes; #t and #f
\* give Bool(true) and Bool(false).
C10_BareLiterals ==
    IsBareLiteral(input) =>
        /\ lexed.st \in {"none", "ok"}
        /\ built.st \in {"none", "ok"}
        /\ built.st = "ok" =>
             /\ Len(built.exprs) = 1
             /\ Denotes(input, built.exprs[1])

\* the list (quote D)
QuoteOf(d) == cons(ObjSymbol(QuoteText), cons(d, ObjNil))
IsDatumToken(tok) == tok.t \in {"Symbol", "Number", "String"}
\* the proper list of the Objects the literal tokens toks[i..j] denote
RECURSIVE ListOfLiterals(_, _, _)
ListOfLiterals(toks, i, j) ==
    IF i > j THEN ObjNil ELSE cons(Literal(toks[i]), ListOfLiterals(toks, i + 1, j))

\* C11: a Quote token followed by a datum D (a symbol, a number, a string
\* or a parenthesised list), at top level or inside a list, is built into
\* the two-element list (quote D); a list is read whole and then wrapped.
C11_QuoteWrapping ==
    (lexed.st = "ok" /\ built # NotRun) =>
        LET toks == lexed.tokens
            n == Len(toks)
        IN /\ (n = 2 /\ toks[1] = Quote /\ IsDatumToken(toks[2])) =>
                 built = BuildOk(<<QuoteOf(Literal(toks[2]))>>)
           /\ (n = 4 /\ toks[1] = LeftParen /\ toks[2] = Quote
                 /\ IsDatumToken(toks[3]) /\ toks[4] = RightParen) =>
                 built = BuildOk(<<cons(QuoteOf(Literal(toks[3])), ObjNil)>>)
           /\ (n >= 3 /\ toks[1] = Quote /\ toks[2] = LeftParen /\ toks[n] = RightParen
                 /\ \A i \in 3..(n - 1) : IsDatumToken(toks[i])) =>
                 built = BuildOk(<<QuoteOf(ListOfLiterals(toks, 3, n - 1))>>)

\* the characters no token starts with
CannotStart ==
    {c \in Chars : ~(c \in {"(", ")", "'", "\"", "#"} \/ is_whitespace(c)
                     \/ is_digit(c) \/ is_symbol_char(c, TRUE))}

\* C12: the lexer ends, for every input, with a token sequence or with a
\* ParseError and never aborts; a character that cannot start a token
\* gives ParseError::Input, and so does a character other than whitespace,
\* ( or ) right after #t or #f.
C12_LexTotal ==
    lexed # NotRun =>
        /\ lexed.st \in {"ok", "err"}
        /\ (input # <<>> /\ input[1] \in CannotStart) => lexed = LexErr("Input")
        /\ (Len(input) >= 3 /\ input[1] = "#" /\ input[2] \in {"t", "f"}
              /\ ~(is_whitespace(input[3]) \/ input[3] \in {"(", ")"})) =>
             lexed = LexErr("Input")

\* what may end a number or a symbol, and the token its end re-emits
Terminators == {<<>>, <<" ">>, <<"(">>, <<")">>}
TermTokens(e) ==
    IF e = <<"(">> THEN <<LeftParen>>
    ELSE IF e = <<")">> THEN <<RightParen>>
    ELSE <<>>

\* C22: a symbol is ended as a number is: by whitespace, which is consumed,
\* by ( or by ), each re-emitted as its token after the Symbol token, or by
\* the end of the input; so an input that is a number and one terminator
\* lexes to Number and the terminator's token, and an input that is a symbol
\* other than nil and one terminator lexes to Symbol and the terminator's
\* token.
C22_SymbolTermination ==
    lexed # NotRun =>
        \A e \in Terminators :
            LET n == Len(input) - Len(e)
                text == SubSeq(input, 1, n)
            IN (n >= 1 /\ SubSeq(input, n + 1, Len(input)) = e) =>
                 /\ IsNumberText(text) =>
                      lexed = LexOk(<<NumberToken(text)>> \o TermTokens(e))
                 /\ (IsSymbolText(text) /\ text # NilText) =>
                      lexed = LexOk(<<SymbolToken(text)>> \o TermTokens(e))

\* how the parentheses of toks[i..] nest, depth lists being open: "Token" at
\* a RightParen that closes nothing, "EOF" when a list stays open, else "ok"
RECURSIVE Balance(_, _, _)
Balance(toks, i, depth) ==
    IF i > Len(toks) THEN (IF depth > 0 THEN "EOF" ELSE "ok")
    ELSE IF toks[i] = LeftParen THEN Balance(toks, i + 1, depth + 1)
    ELSE IF toks[i] = RightParen
         THEN IF depth = 0 THEN "Token" ELSE Balance(toks, i + 1, depth - 1)
    ELSE Balance(toks, i + 1, depth)

BuildErr(e) == [st |-> "err", err |-> e]

\* C13: for a token stream whose parentheses do not balance the reader
\* returns a ParseError and neither aborts nor returns a result: Token for
\* a RightParen at top level, EOF for a list still open when the tokens
\* run out.
C13_UnbalancedParens ==
    (lexed.st = "ok" /\ built # NotRun
        /\ \A i \in 1..Len(lexed.tokens) : lexed.tokens[i] # Quote) =>
        LET b == Balance(lexed.tokens, 1, 0)
        IN /\ b = "Token" => built = BuildErr("Token")
           /\ b = "EOF" => built = BuildErr("EOF")

\* the position where the datum that starts at toks[i] ends: i for a
\* literal, the matching RightParen for a LeftParen
RECURSIVE CloseOf(_, _, _)
CloseOf(toks, j, depth) ==
    IF toks[j] = LeftParen THEN CloseOf(toks, j + 1, depth + 1)
    ELSE IF toks[j] = RightParen
         THEN IF depth = 1 THEN j ELSE CloseOf(toks, j + 1, depth - 1)
    ELSE CloseOf(toks, j + 1, depth)
DatumEnd(toks, i) == IF toks[i] = LeftParen THEN CloseOf(toks, i + 1, 1) ELSE i

\* the proper list of the Objects of a sequence, in order
RECURSIVE ProperList(_)
ProperList(os) == IF os = <<>> THEN ObjNil ELSE cons(Head(os), ProperList(Tail(os)))

\* the Objects of the data of toks[i..j], in source order: a literal is its
\* Object, a LeftParen up to its matching RightParen the proper list of the
\* data between them
RECURSIVE DataOf(_, _, _)
DataOf(toks, i, j) ==
    IF i > j THEN <<>>
    ELSE LET e == DatumEnd(toks, i)
             d == IF toks[i] = LeftParen THEN ProperList(DataOf(toks, i + 1, e - 1))
                  ELSE Literal(toks[i])
         IN <<d>> \o DataOf(toks, e + 1, j)

\* how many data toks[i..] holds at top level
RECURSIVE TopLevelData(_, _)
TopLevelData(toks, i) ==
    IF i > Len(toks) THEN 0 ELSE 1 + TopLevelData(toks, DatumEnd(toks, i) + 1)

Balanced(toks) ==
    /\ Balance(toks, 1, 0) = "ok"
    /\ \A i \in 1..Len(toks) : toks[i] # Quote

\* C23: for a token stream with balanced parentheses and no Quote token
\* build_ast returns one Object per top-level datum, in source order; each
\* LeftParen up to its matching RightParen gives one proper list of the
\* Objects of the data between them, in source order, a nested LeftParen
\* giving a list nested in the list around it.
C23_BuildPreserves ==
    (built # NotRun /\ Balanced(stream)) =>
        /\ built.st = "ok"
        /\ Len(built.exprs) = TopLevelData(stream, 1)
        /\ built.exprs = DataOf(stream, 1, Len(stream))

\* ((f) 1) : a list of a nested list and a literal
C23_Witness ==
    /\ stream = <<LeftParen, LeftParen, SymbolToken(<<"f">>), RightParen,
                  NumberToken(<<"1">>), RightParen>>
    /\ built = BuildOk(<<cons(cons(ObjSymbol(<<"f">>), ObjNil),
                              cons(ObjNumber(1), ObjNil))>>)

\* the position, from i on, of the first double quote no backslash escapes;
\* 0 when the text ends before one
RECURSIVE ClosePos(_, _)
ClosePos(s, i) ==
    IF i > Len(s) THEN 0
    ELSE IF s[i] = "\"" THEN i
    ELSE IF s[i] = "\\" THEN (IF i + 1 > Len(s) THEN 0 ELSE ClosePos(s, i + 2))
    ELSE ClosePos(s, i + 1)

Escaped(c) == IF c = "n" THEN "\n" ELSE IF c = "t" THEN "\t" ELSE c

\* the content the characters s[i..j] of a string literal stand for
RECURSIVE Unescape(_, _, _)
Unescape(s, i, j) ==
    IF i > j THEN <<>>
    ELSE IF s[i] = "\\" THEN <<Escaped(s[i + 1])>> \o Unescape(s, i + 2, j)
    ELSE <<s[i]>> \o Unescape(s, i + 1, j)

\* the first double quote of the input, when only (, ' and blanks precede it
OpenPos ==
    IF \E k \in 1..Len(input) : input[k] = "\""
    THEN LET k == CHOOSE k \in 1..Len(input) :
                     input[k] = "\"" /\ \A j \in 1..(k - 1) : input[j] # "\""
         IN IF \A j \in 1..(k - 1) : input[j] \in {"(", "'", " "} THEN k ELSE 0
    ELSE 0

\* C14: after an opening double quote the lexer emits one String token
\* holding the characters up to the first unescaped double quote, with
\* \n read as newline, \t as tab and any other \c as c; when the input
\* ends before that closing quote, also right after a backslash, the
\* result is ParseError::EOF and no token.
C14_StringLexing ==
    (lexed # NotRun /\ OpenPos # 0) =>
        LET k == OpenPos
            j == ClosePos(input, k + 1)
            before == Cardinality({i \in 1..(k - 1) : input[i] # " "})
        IN IF j = 0 THEN lexed = LexErr("EOF")
           ELSE /\ lexed.st = "ok" =>
                     /\ Len(lexed.tokens) > before
                     /\ lexed.tokens[before + 1] = StringToken(Unescape(input, k + 1, j - 1))
                /\ j = Len(input) =>
                     /\ lexed.st = "ok"
                     /\ Len(lexed.tokens) = before + 1

\* the text "\"" : an escaped double quote does not end the string
C14_Witness ==
    /\ input = <<"\"", "\\", "\"", "\"">>
    /\ lexed = LexOk(<<StringToken(<<"\"">>)>>)

====
